---- MODULE Spec2Model ----
(***************************************************************************)
(* Supervision and lifecycle layer of neux-api.                            *)
(*                                                                         *)
(*   src/src/backend/server.mjs  runs in every process of the cluster: it  *)
(*       defines a shutdown function with its own `executed` flag,         *)
(*       registers it for SIGTERM, SIGINT, SIGUSR2 and 'exit', and then    *)
(*       either forks THREADS workers (primary) or calls runWorker().      *)
(*   src/src/backend/worker.mjs  is runWorker: it defines a second         *)
(*       shutdown function with a second `executed` flag, registers it     *)
(*       for the same three signals, connects the data store, builds the   *)
(*       listeners and publishes the startup event.                        *)
(*                                                                         *)
(* One step of the model is one macrotask of a process's event loop: the   *)
(* synchronous code of a handler together with the microtasks it leaves.   *)
(* Timers are untimed: an armed timer may fire at any later step.          *)
(***************************************************************************)
EXTENDS Integers, Sequences, FiniteSets, TLC

(* ------------------------------ bounds -------------------------------- *)
\* Messages of workers the primary has not handled yet.
MaxQueue == 1

(* ------------------------- program constants -------------------------- *)
\* server.mjs:10, THREADS (os.cpus().length or the environment's value).
THREADS == 1
\* server.mjs:9, the default of TIMEOUT when the environment sets none.
DefaultTIMEOUT == <<"1", "0">>

\* Worker ids. cluster.fork() gives every worker a fresh id; the model takes
\* the least id held by no worker of cluster.workers and no message in flight,
\* which renames the increasing ids of node:cluster.
Ids == 1..(THREADS + MaxQueue)
Signals == {"SIGTERM", "SIGINT", "SIGUSR2"}
\* payloads of inter-worker messages
Payloads == {"m"}
\* exit code of a process that made no process.exit call (killed by a signal)
NoCode == 0 - 1

VARIABLES
    conf,      \* the configuration every process reads (process.env, nconf)
    sup,       \* the primary process
    workers,   \* the worker processes, by cluster worker id
    toSup      \* messages sent by workers, not yet handled by the primary

vars == <<conf, sup, workers, toSup>>

(* --------------------------- parseInt --------------------------------- *)
\* A configuration string is a sequence of one-character strings.
DigitChars == <<"0", "1", "2", "3", "4", "5", "6", "7", "8", "9">>
IsDigit(c) == \E i \in 1..10 : DigitChars[i] = c
DigitVal(c) == (CHOOSE i \in 1..10 : DigitChars[i] = c) - 1

RECURSIVE ParseDigits(_, _, _)
\* value of the longest prefix of digits of s from position i on, or acc
ParseDigits(s, i, acc) ==
    IF i > Len(s) \/ ~IsDigit(s[i]) THEN acc
    ELSE ParseDigits(s, i + 1, 10 * acc + DigitVal(s[i]))

\* parseInt(v): [nan |-> TRUE] when v is undefined or starts with no digit
ParseInt(v) ==
    IF ~v.set THEN [nan |-> TRUE, n |-> 0]
    ELSE LET s == v.str
             neg == Len(s) > 0 /\ s[1] = "-"
             from == IF neg THEN 2 ELSE 1
         IN IF from > Len(s) \/ ~IsDigit(s[from]) THEN [nan |-> TRUE, n |-> 0]
            ELSE [nan |-> FALSE,
                  n |-> IF neg THEN 0 - ParseDigits(s, from, 0)
                        ELSE ParseDigits(s, from, 0)]

\* `x > 0` on the result of parseInt (NaN > 0 is false)
Positive(p) == ~p.nan /\ p.n > 0

Unset == [set |-> FALSE, str |-> <<>>]
Str(s) == [set |-> TRUE, str |-> s]

\* const { TIMEOUT = 10 } = process.env
TIMEOUT == IF conf.envTimeout.set THEN conf.envTimeout ELSE Str(DefaultTIMEOUT)

(* --------------------------- configuration ---------------------------- *)
\* kinds of a TLS credential value: absent, inline PEM text, path of a file
CredKinds == {"absent", "pem", "path"}

Configs ==
    { [envTimeout |-> e, timeout |-> t, key |-> k.key, cert |-> k.cert,
       ca |-> k.ca, httpPort |-> k.http] :
        e \in {Unset, Str(<<"0">>)},
        t \in {Unset, Str(<<"5">>)},
        k \in { [key |-> "absent", cert |-> "absent", ca |-> "absent", http |-> FALSE],
                [key |-> "pem", cert |-> "path", ca |-> "path", http |-> TRUE] } }

\* worker.mjs:80, protocol
Protocol == IF conf.key # "absent" /\ conf.cert # "absent" THEN "https" ELSE "http"

\* parseConf: the file it starts to watch, if any
parseConf(name, kind) == IF kind = "path" THEN {name} ELSE {}

(* ----------------------------- processes ------------------------------ *)
\* a header that is not set
NoHeader == 0 - 1
NoResponse == [status |-> 0, location |-> <<>>, contentType |-> "",
               contentLength |-> NoHeader, body |-> <<>>]
\* httpServer's handler: idle, reading (fs.readFile pending), done
NoExchange == [phase |-> "idle", req |-> [host |-> "", url |-> <<>>],
               path |-> <<>>, res |-> NoResponse]

NewProcess ==
    [ proc        |-> "running",   \* running, exited (exit not yet seen by the primary)
      once        |-> Signals,     \* signals whose process.once handlers are registered
      srvExecuted |-> FALSE,       \* server.mjs shutdown.executed
      srvRuns     |-> 0,           \* times server.mjs shutdown passed its guard
      srvPc       |-> "idle",      \* idle, emit (awaiting events.emit('shutdown'))
      srvCode     |-> 0,           \* the code server.mjs shutdown was called with
      evShutdown  |-> 0,           \* 'shutdown' publications on utils/events
      wrkExecuted |-> FALSE,       \* worker.mjs shutdown.executed
      wrkRuns     |-> 0,           \* times worker.mjs shutdown passed its guard
      wrkPc       |-> "idle",      \* idle, disconnect (awaiting db.disconnect), closing
      lcShutdown  |-> 0,           \* 'shutdown' publications on events/lifecycle
      lcPending   |-> FALSE,       \* a subscriber of that publication is pending
      timers      |-> {},          \* pending timers
      armed       |-> 0,           \* forced-exit timers armed so far
      pc          |-> "connect",   \* connect, routes, up, failed
      server      |-> "undef",     \* undef, created, binding, listening, unbound,
                                   \* closing, closed
      httpServer  |-> "undef",
      watched     |-> {},          \* credential files under fs.watchFile
      startup     |-> FALSE,       \* lifecycle 'startup' published
      cause       |-> "none",      \* what first started worker.mjs shutdown
      exitCode    |-> NoCode,
      exitBy      |-> "none",
      inbox       |-> {},          \* messages received: [data, own], own when the
                                   \* receiver is the sender
      http        |-> NoExchange ] \* the exchange httpServer's handler is serving

Running(w) == workers[w].proc = "running"

\* server.mjs shutdown() without the test of cluster.isPrimary
server_shutdown_everywhere(r, code, isPrimary) ==
    IF r.srvExecuted THEN r
    ELSE LET r1 == [r EXCEPT !.srvExecuted = TRUE, !.srvRuns = @ + 1]
             r2 == IF Positive(ParseInt(TIMEOUT))
                   THEN [r1 EXCEPT !.timers = @ \cup {"srvForce"}, !.armed = @ + 1]
                   ELSE r1
         IN [r2 EXCEPT !.evShutdown = @ + 1, !.srvPc = "emit", !.srvCode = code]

\* server.mjs shutdown(code), up to its first await
server_shutdown(r, code, isPrimary) ==
    IF r.srvExecuted THEN r
    ELSE LET r1 == [r EXCEPT !.srvExecuted = TRUE, !.srvRuns = @ + 1]
             r2 == IF Positive(ParseInt(TIMEOUT))
                   THEN [r1 EXCEPT !.timers = @ \cup {"srvForce"}, !.armed = @ + 1]
                   ELSE r1
         IN IF isPrimary THEN r2
            ELSE [r2 EXCEPT !.evShutdown = @ + 1, !.srvPc = "emit", !.srvCode = code]

\* worker.mjs shutdown() without the test of its executed flag
worker_shutdown_unguarded(r) ==
    LET r1 == [r EXCEPT !.wrkExecuted = TRUE, !.wrkRuns = @ + 1]
        r2 == IF Positive(ParseInt(conf.timeout))
              THEN [r1 EXCEPT !.timers = @ \cup {"wrkForce"}, !.armed = @ + 1]
              ELSE r1
    IN [r2 EXCEPT !.lcShutdown = @ + 1, !.lcPending = TRUE,
                       !.wrkPc = "disconnect"]

\* worker.mjs shutdown() that goes to its teardown without publishing 'shutdown'
worker_shutdown_silent(r) ==
    IF r.wrkExecuted THEN r
    ELSE LET r1 == [r EXCEPT !.wrkExecuted = TRUE, !.wrkRuns = @ + 1]
             r2 == IF Positive(ParseInt(conf.timeout))
                   THEN [r1 EXCEPT !.timers = @ \cup {"wrkForce"}, !.armed = @ + 1]
                   ELSE r1
         IN [r2 EXCEPT !.wrkPc = "disconnect"]

\* worker.mjs shutdown(), up to its first await
worker_shutdown(r) ==
    IF r.wrkExecuted THEN r
    ELSE LET r1 == [r EXCEPT !.wrkExecuted = TRUE, !.wrkRuns = @ + 1]
             r2 == IF Positive(ParseInt(conf.timeout))
                   THEN [r1 EXCEPT !.timers = @ \cup {"wrkForce"}, !.armed = @ + 1]
                   ELSE r1
         IN [r2 EXCEPT !.lcShutdown = @ + 1, !.lcPending = TRUE,
                       !.wrkPc = "disconnect"]

\* worker.mjs shutdown called by trigger c
Trigger(r, c) ==
    [worker_shutdown(r) EXCEPT !.cause = IF r.wrkExecuted THEN @ ELSE c]

NoProcess == [NewProcess EXCEPT !.proc = "none"]

\* What is left of a process that ended: its exit code and how far it had
\* come; its handlers, timers, watches and messages are gone with it.
Ended(r, code, by) ==
    [r EXCEPT !.proc = "exited", !.exitCode = code, !.exitBy = by,
              !.once = {}, !.timers = {}, !.watched = {}, !.inbox = {},
              !.lcPending = FALSE]

\* process.exit(code): the 'exit' handler of server.mjs:53 runs
\* shutdown(code) synchronously, then the process is gone
process_exit(r, code, by, isPrimary) ==
    Ended(server_shutdown(r, code, isPrimary), code, by)

\* default action of a signal no handler is registered for
Killed(r) == Ended(r, NoCode, "kill")

(* ------------------------------- Init --------------------------------- *)
\* after the module code of server.mjs ran in the primary (the fork loop)
\* and in each worker (runWorker up to its first await)
Init ==
    /\ conf \in Configs
    /\ sup = NewProcess
    /\ workers = [w \in Ids |-> IF w <= THREADS THEN NewProcess ELSE NoProcess]
    /\ toSup = <<>>

(* --------------------------- worker startup --------------------------- *)
\* the catch of runWorker: a delayed shutdown is scheduled
StartupFailed(r) == [r EXCEPT !.pc = "failed", !.timers = @ \cup {"startFail"}]

\* db.connect() resolved: the server object is created (credentials are
\* parsed, files given as paths are watched); startup then awaits setupRoutes()
DbConnectOk(w) ==
    /\ Running(w) /\ workers[w].pc = "connect"
    /\ workers' = [workers EXCEPT ![w] =
          [@ EXCEPT !.pc = "routes",
                    !.server = "created",
                    !.watched = IF Protocol = "https"
                                THEN parseConf("key", conf.key)
                                     \cup parseConf("cert", conf.cert)
                                     \cup parseConf("ca", conf.ca)
                                ELSE {}]]
    /\ UNCHANGED <<conf, sup, toSup>>

\* db.connect() rejected
DbConnectFail(w) ==
    /\ Running(w) /\ workers[w].pc = "connect"
    /\ workers' = [workers EXCEPT ![w] = StartupFailed(@)]
    /\ UNCHANGED <<conf, sup, toSup>>

\* setupRoutes() resolved: both listen calls are made and 'startup' is
\* published, all in the same synchronous run
Listen(r) ==
    [r EXCEPT !.pc = "up",
              !.server = "binding",
              !.httpServer = IF Protocol = "https" /\ conf.httpPort
                             THEN "binding" ELSE @,
              !.startup = TRUE]

RoutesOk(w) ==
    /\ Running(w) /\ workers[w].pc = "routes"
    /\ workers' = [workers EXCEPT ![w] = Listen(@)]
    /\ UNCHANGED <<conf, sup, toSup>>

\* setupRoutes() rejected
RoutesFail(w) ==
    /\ Running(w) /\ workers[w].pc = "routes"
    /\ workers' = [workers EXCEPT ![w] = StartupFailed(@)]
    /\ UNCHANGED <<conf, sup, toSup>>

Listeners == {"server", "httpServer"}

\* the 'listening' event of a listener
ListenOk(w, l) ==
    /\ Running(w) /\ workers[w][l] = "binding"
    /\ workers' = [workers EXCEPT ![w][l] = "listening"]
    /\ UNCHANGED <<conf, sup, toSup>>

\* an 'error' event of a listener that ends the process
ListenErr_fatal(w, l) ==
    /\ Running(w) /\ workers[w][l] = "binding"
    /\ workers' = [workers EXCEPT ![w] = process_exit([@ EXCEPT ![l] = "unbound"],
                                                     1, "srvErr", FALSE)]
    /\ UNCHANGED <<conf, sup, toSup>>

\* the 'error' event of a listener whose bind failed: it is logged
ListenErr(w, l) ==
    /\ Running(w) /\ workers[w][l] = "binding"
    /\ workers' = [workers EXCEPT ![w][l] = "unbound"]
    /\ UNCHANGED <<conf, sup, toSup>>

(* ------------------------- shutdown triggers -------------------------- *)
\* A signal reaches a worker. Its once-handlers run in the order they were
\* registered: server.mjs's shutdown(), then worker.mjs's shutdown. With no
\* handler left for the signal its default action ends the process.
Signal(w, s) ==
    /\ Running(w)
    /\ workers' = [workers EXCEPT ![w] =
          IF s \in @.once
          THEN Trigger(server_shutdown([@ EXCEPT !.once = @ \ {s}], 0, FALSE), "signal")
          ELSE Killed(@)]
    /\ UNCHANGED <<conf, sup, toSup>>

\* fs.watchFile reports a change of a watched credential file
FileChange(w, f) ==
    /\ Running(w) /\ f \in workers[w].watched
    /\ workers' = [workers EXCEPT ![w] = Trigger(@, "file")]
    /\ UNCHANGED <<conf, sup, toSup>>

\* the delayed shutdown scheduled by a failed startup
StartFailTimer(w) ==
    /\ Running(w) /\ "startFail" \in workers[w].timers
    /\ workers' = [workers EXCEPT ![w] =
          Trigger([@ EXCEPT !.timers = @ \ {"startFail"}], "startfail")]
    /\ UNCHANGED <<conf, sup, toSup>>

(* ----------------------- shutdown continuations ----------------------- *)
\* a forced-exit timer fires: process.exit(1)
ForceTimer(w, t) ==
    /\ Running(w) /\ t \in workers[w].timers \cap {"srvForce", "wrkForce"}
    /\ workers' = [workers EXCEPT ![w] = process_exit(@, 1, t, FALSE)]
    /\ UNCHANGED <<conf, sup, toSup>>

\* server.mjs: events.emit('shutdown') resolved, process.exit(code)
EventsEmitDone(w) ==
    /\ Running(w) /\ workers[w].srvPc = "emit"
    /\ workers' = [workers EXCEPT ![w] = process_exit(@, @.srvCode, "srv", FALSE)]
    /\ UNCHANGED <<conf, sup, toSup>>

\* server.mjs: events.emit('shutdown') rejected, process.exit(1)
EventsEmitFail(w) ==
    /\ Running(w) /\ workers[w].srvPc = "emit"
    /\ workers' = [workers EXCEPT ![w] = process_exit(@, 1, "srvErr", FALSE)]
    /\ UNCHANGED <<conf, sup, toSup>>

\* listener.close(resolve): a listening listener waits for its connections,
\* any other one is closed at once; no listener resolves at once
Close(st) == CASE st = "undef" -> "undef"
               [] st = "listening" -> "closing"
               [] OTHER -> "closed"

ClosesDone(r) == r.server \in {"undef", "closed"} /\ r.httpServer \in {"undef", "closed"}

\* worker.mjs: the end of Promise.all, process.exit(0)
AfterCloses(r) == IF ClosesDone(r) THEN process_exit(r, 0, "wrk", FALSE) ELSE r

\* worker.mjs: db.disconnect() resolved, both closes are started
DisconnectOk(w) ==
    /\ Running(w) /\ workers[w].wrkPc = "disconnect"
    /\ workers' = [workers EXCEPT ![w] =
          AfterCloses([@ EXCEPT !.wrkPc = "closing",
                                !.server = Close(@),
                                !.httpServer = Close(@)])]
    /\ UNCHANGED <<conf, sup, toSup>>

\* the operation a subscriber of lifecycle 'shutdown' returned has completed;
\* worker.mjs:31 does not await it, so nothing in shutdown() waits for this
LifecycleShutdownDone(w) ==
    /\ Running(w) /\ workers[w].lcPending
    /\ workers' = [workers EXCEPT ![w].lcPending = FALSE]
    /\ UNCHANGED <<conf, sup, toSup>>

\* worker.mjs: db.disconnect() rejected, with an exit that reports success
DisconnectFail_zero(w) ==
    /\ Running(w) /\ workers[w].wrkPc = "disconnect"
    /\ workers' = [workers EXCEPT ![w] = process_exit(@, 0, "wrkErr", FALSE)]
    /\ UNCHANGED <<conf, sup, toSup>>

\* worker.mjs: db.disconnect() rejected, process.exit(1)
DisconnectFail(w) ==
    /\ Running(w) /\ workers[w].wrkPc = "disconnect"
    /\ workers' = [workers EXCEPT ![w] = process_exit(@, 1, "wrkErr", FALSE)]
    /\ UNCHANGED <<conf, sup, toSup>>

\* the close callback of a listener
CloseDone(w, l) ==
    /\ Running(w) /\ workers[w][l] = "closing"
    /\ workers' = [workers EXCEPT ![w] = AfterCloses([@ EXCEPT ![l] = "closed"])]
    /\ UNCHANGED <<conf, sup, toSup>>

\* the primary is gone: a cluster worker exits when its channel disconnects
Disconnected(w) ==
    /\ Running(w) /\ sup.proc # "running"
    /\ workers' = [workers EXCEPT ![w] = process_exit(@, 0, "disconnect", FALSE)]
    /\ UNCHANGED <<conf, sup, toSup>>

(* ----------------------------- messages ------------------------------- *)
\* a worker sends a message to the primary
WorkerSend(w, d) ==
    /\ Running(w) /\ Len(toSup) < MaxQueue
    /\ toSup' = Append(toSup, [from |-> w, data |-> d])
    /\ UNCHANGED <<conf, sup, workers>>

(* ----------------------------- supervisor ----------------------------- *)
SupRunning == sup.proc = "running"

\* cluster.workers: the workers forked whose exit the primary has not handled
ClusterWorkers == {w \in Ids : workers[w].proc \in {"running", "exited"}}

\* a signal reaches the primary
SupSignal(s) ==
    /\ SupRunning
    /\ sup' = IF s \in sup.once
              THEN server_shutdown([sup EXCEPT !.once = @ \ {s}], 0, TRUE)
              ELSE Killed(sup)
    /\ UNCHANGED <<conf, workers, toSup>>

\* the primary's forced-exit timer fires
SupForceTimer ==
    /\ SupRunning /\ "srvForce" \in sup.timers
    /\ sup' = process_exit(sup, 1, "srvForce", TRUE)
    /\ UNCHANGED <<conf, workers, toSup>>

\* the id of the next fork
FreshId(ws) ==
    CHOOSE i \in Ids :
        /\ ws[i].proc = "none"
        /\ \A k \in 1..Len(toSup) : toSup[k].from # i
        /\ \A j \in Ids : (ws[j].proc = "none"
                           /\ \A k \in 1..Len(toSup) : toSup[k].from # j) => i <= j

\* cluster.fork()
Fork(ws) == [ws EXCEPT ![FreshId(ws)] = NewProcess]

\* cluster.on('exit') with the test of the flag inverted
OnExit_inverted(ws, w) ==
    IF ~sup.srvExecuted THEN [ws EXCEPT ![w] = NoProcess]
    ELSE Fork([ws EXCEPT ![w] = NoProcess])

\* cluster.on('exit') without the test of the flag
OnExit_unguarded(ws, w) == Fork([ws EXCEPT ![w] = NoProcess])

\* cluster.on('exit') that forks no replacement
OnExit_noFork(ws, w) == [ws EXCEPT ![w] = NoProcess]

\* cluster.on('exit') that replaces a worker by its exit code, not by the flag
OnExit_byCode(ws, w) ==
    IF ws[w].exitCode = 0 THEN [ws EXCEPT ![w] = NoProcess]
    ELSE Fork([ws EXCEPT ![w] = NoProcess])

\* cluster.on('exit'): the worker has left cluster.workers, and is replaced
\* unless the primary's shutdown has run
OnExit(ws, w) ==
    IF sup.srvExecuted THEN [ws EXCEPT ![w] = NoProcess]
    ELSE Fork([ws EXCEPT ![w] = NoProcess])

SupOnExit(w) ==
    /\ SupRunning /\ workers[w].proc = "exited"
    /\ workers' = OnExit(workers, w)
    /\ UNCHANGED <<conf, sup, toSup>>

\* cluster.on('message'): the data is sent to every worker of cluster.workers
Relay(ws, m) ==
    [w \in Ids |-> IF w \in ClusterWorkers /\ ws[w].proc = "running"
                   THEN [ws[w] EXCEPT !.inbox = @ \cup {[data |-> m.data, own |-> m.from = w]}]
                   ELSE ws[w]]

SupOnMessage ==
    /\ SupRunning /\ toSup # <<>>
    /\ workers' = Relay(workers, Head(toSup))
    /\ toSup' = Tail(toSup)
    /\ UNCHANGED <<conf, sup>>

(* ------------------------------- Next --------------------------------- *)
WorkerStep(w) ==
    \/ DbConnectOk(w) \/ DbConnectFail(w) \/ RoutesOk(w) \/ RoutesFail(w)
    \/ \E l \in Listeners : ListenOk(w, l) \/ ListenErr(w, l) \/ CloseDone(w, l)
    \/ \E s \in Signals : Signal(w, s)
    \/ \E f \in {"key", "cert", "ca"} : FileChange(w, f)
    \/ StartFailTimer(w)
    \/ \E t \in {"srvForce", "wrkForce"} : ForceTimer(w, t)
    \/ EventsEmitDone(w) \/ EventsEmitFail(w)
    \/ DisconnectOk(w) \/ DisconnectFail(w) \/ LifecycleShutdownDone(w)
    \/ Disconnected(w)
    \/ \E d \in Payloads : WorkerSend(w, d)

SupStep ==
    \/ \E s \in Signals : SupSignal(s)
    \/ SupForceTimer
    \/ \E w \in Ids : SupOnExit(w)
    \/ SupOnMessage

Next == SupStep \/ \E w \in Ids : WorkerStep(w)

Spec == Init /\ [][Next]_vars

(* ------------------- httpServer: the plaintext listener ---------------- *)
\* Texts are sequences of tokens; a URL is the sequence of its segments, each
\* preceded by "/" in its text ("/" itself is the one empty segment); a file
\* path is a sequence of segments from the root.

\* values nconf.get can return for a key: a string or a number
JsString(s) == [type |-> "string", str |-> s, n |-> 0]
JsNumber(n) == [type |-> "number", str |-> <<>>, n |-> n]

RECURSIVE Digits(_)
\* decimal text of a natural number
Digits(n) ==
    IF n < 10 THEN <<DigitChars[n + 1]>>
    ELSE Digits(n \div 10) \o <<DigitChars[(n % 10) + 1]>>

\* ':' + port converts port to a string
PortText(v) == IF v.type = "string" THEN v.str ELSE Digits(v.n)

\* port === '443': strict equality with a string
IsString443(v) == v.type = "string" /\ v.str = <<"4", "4", "3">>

RECURSIVE UrlText(_)
\* the text of req.url
UrlText(url) ==
    IF url = <<>> THEN <<>> ELSE <<"/", Head(url)>> \o UrlText(Tail(url))

\* /^\/\.well-known\/acme-challenge\//.test(req.url)
IsAcme(url) ==
    Len(url) >= 3 /\ url[1] = ".well-known" /\ url[2] = "acme-challenge"

RECURSIVE Normalize(_, _)
\* path normalisation: "." and empty segments are dropped, ".." drops the
\* segment before it
Normalize(segs, acc) ==
    IF segs = <<>> THEN acc
    ELSE LET s == Head(segs)
         IN Normalize(Tail(segs),
               CASE s \in {"", "."} -> acc
                 [] s = ".." -> IF acc = <<>> THEN acc
                                ELSE SubSeq(acc, 1, Len(acc) - 1)
                 [] OTHER -> Append(acc, s))

\* path.join(webroot, req.url); a trailing slash is kept
PathJoin(dir, url) ==
    LET p == Normalize(dir \o url, <<>>)
    IN IF url # <<>> /\ url[Len(url)] = "" THEN Append(p, "") ELSE p

\* Buffer.byteLength of a Buffer
ByteLength(data) == Len(data)

\* worker.mjs:229-232, the redirect to the secure listener
Redirect(req) ==
    [NoResponse EXCEPT
        !.status = 301,
        !.location = <<"https://", req.host>>
                     \o (IF IsString443(conf.port) THEN <<>>
                         ELSE <<":">> \o PortText(conf.port))
                     \o UrlText(req.url)]

\* worker.mjs:217-219
NotFound ==
    [NoResponse EXCEPT !.status = 404, !.contentType = "text/plain",
                       !.body = <<"Not Found">>]

\* worker.mjs:221-224
Found(data) ==
    [NoResponse EXCEPT !.status = 200, !.contentType = "text/plain",
                       !.contentLength = ByteLength(data), !.body = data]

\* disk and requests of the plaintext listener
Webroot == <<"var", "www">>
Files ==
    { [path |-> Webroot \o <<".well-known", "acme-challenge", "tok">>,
       data |-> <<116, 111, 107>>],
      [path |-> <<"var", "secret">>, data |-> <<115, 51>>] }
Hosts == {"a.example", "b.example:80"}
Urls ==
    { <<"">>,
      <<"api", "x?y=1">>,
      <<".well-known", "acme-challenge">>,
      <<"x", ".well-known", "acme-challenge", "tok">>,
      <<".well-known", "acme-challenge", "">>,
      <<".well-known", "acme-challenge", "tok">>,
      <<".well-known", "acme-challenge", "none">>,
      <<".well-known", "acme-challenge", "..", "..", "..", "secret">> }
Requests == [host : Hosts, url : Urls]
Ports == { JsString(<<"4", "4", "3">>), JsNumber(443),
           JsString(<<"8", "4", "4", "3">>), JsNumber(8443) }

\* configurations with TLS and a plaintext listener: the secure port, the
\* webroot and the files on disk vary
HttpConfigs ==
    { [envTimeout |-> Unset, timeout |-> Unset, key |-> "pem", cert |-> "path",
       ca |-> "path", httpPort |-> TRUE, port |-> p, webroot |-> r, fs |-> f] :
        p \in Ports, r \in {Unset, Str(Webroot)}, f \in SUBSET Files }

\* a worker of such a configuration after its startup, both listeners bound
Serving ==
    [NewProcess EXCEPT !.pc = "up", !.server = "listening",
                       !.httpServer = "listening", !.startup = TRUE,
                       !.watched = parseConf("key", "pem") \cup parseConf("cert", "path")
                                   \cup parseConf("ca", "path")]

HttpInit ==
    /\ conf \in HttpConfigs
    /\ sup = NewProcess
    /\ workers = [w \in Ids |-> IF w <= THREADS THEN Serving ELSE NoProcess]
    /\ toSup = <<>>

\* worker.mjs:208-233, the handler up to its return: a challenge request
\* starts fs.readFile when a webroot is configured, any other request is
\* redirected
HttpRequest(w, req) ==
    /\ Running(w) /\ workers[w].httpServer = "listening"
    /\ workers[w].http.phase # "reading"
    /\ workers' = [workers EXCEPT ![w].http =
          IF conf.webroot.set /\ conf.webroot.str # <<>> /\ IsAcme(req.url)
          THEN [phase |-> "reading", req |-> req,
                path |-> PathJoin(conf.webroot.str, req.url), res |-> NoResponse]
          ELSE [phase |-> "done", req |-> req, path |-> <<>>, res |-> Redirect(req)]]
    /\ UNCHANGED <<conf, sup, toSup>>

\* the callback of fs.readFile with the file's data
ReadFileOk(w) ==
    /\ Running(w) /\ workers[w].http.phase = "reading"
    /\ \E f \in conf.fs :
          /\ f.path = workers[w].http.path
          /\ workers' = [workers EXCEPT ![w].http =
                [@ EXCEPT !.phase = "done", !.res = Found(f.data)]]
    /\ UNCHANGED <<conf, sup, toSup>>

\* the callback of fs.readFile with an error: no such file
ReadFileErr(w) ==
    /\ Running(w) /\ workers[w].http.phase = "reading"
    /\ \A f \in conf.fs : f.path # workers[w].http.path
    /\ workers' = [workers EXCEPT ![w].http =
          [@ EXCEPT !.phase = "done", !.res = NotFound]]
    /\ UNCHANGED <<conf, sup, toSup>>

HttpNext ==
    \E w \in Ids : \/ \E req \in Requests : HttpRequest(w, req)
                   \/ ReadFileOk(w)
                   \/ ReadFileErr(w)

HttpSpec == HttpInit /\ [][HttpNext]_vars

(* ============================ properties ============================== *)
Processes == {sup} \cup {workers[w] : w \in Ids}

\* the workers that are running after a step and were not before it
NewWorkers == {i \in Ids : workers[i].proc # "running" /\ workers'[i].proc = "running"}

\* the step in which the primary handles the exit of worker w
HandlesExit(w) ==
    /\ sup.proc = "running" /\ sup' = sup
    /\ workers[w].proc = "exited"
    /\ workers'[w] # workers[w]

\* exits made by a process.exit call of one of the two shutdown functions
ShutdownExits == {"srv", "srvErr", "wrk", "wrkErr", "srvForce", "wrkForce"}

\* C1: in any one process the shutdown sequence is executed exactly once,
\* whatever the triggers: the two shutdown functions together pass their
\* guards at most once per process.
C1_ShutdownOncePerProcess ==
    \A p \in Processes : p.srvRuns + p.wrkRuns <= 1

\* C2: when the primary handles the exit of a worker that ended with a
\* non-zero code and its own shutdown flag is false, exactly one worker is
\* forked in that step, and it is a new process.
C2_RespawnOnCrash ==
    [][\A w \in Ids :
          (HandlesExit(w) /\ workers[w].exitCode > 0 /\ ~sup.srvExecuted)
          => /\ Cardinality(NewWorkers) = 1
             /\ \A i \in NewWorkers : workers'[i] = NewProcess]_vars

\* C2 witness: the primary, its flag false, is about to handle the exit of a
\* worker that ended with code 1.
C2_Witness ==
    \E w \in Ids : /\ workers[w].proc = "exited" /\ workers[w].exitCode = 1
                   /\ sup.proc = "running" /\ ~sup.srvExecuted

\* C3: once the primary's shutdown flag is true no worker is forked: no step
\* taken with the flag true adds a running worker.
C3_NoForkAfterShutdown ==
    [][sup.srvExecuted => NewWorkers = {}]_vars

\* C3 witness: the primary's flag is true and it has handled the exit of its
\* worker, which left cluster.workers empty.
C3_Witness ==
    /\ sup.proc = "running" /\ sup.srvExecuted
    /\ \A w \in Ids : workers[w].proc = "none"

\* C4: a message sent by worker A is relayed to the other workers and never
\* delivered back to A: no worker holds a message of its own.
C4_NoDeliveryToSender ==
    \A w \in Ids : \A m \in workers[w].inbox : ~m.own

C6_StalledTeardownExitsOne ==
    \A w \in Ids :
        (/\ workers[w].proc = "exited"
         /\ workers[w].exitBy \in ShutdownExits
         /\ workers[w].wrkPc = "disconnect"
         /\ workers[w].armed = 2)
        => workers[w].exitCode = 1

\* C7: a worker does not exit before the closes of its listeners have
\* completed, unless a forced-exit timer fired. Judged only on the exits a
\* shutdown function makes after a teardown without error, and only for
\* listeners that were bound: none of them is still listening or closing.
C7_ExitAfterCloses ==
    \A w \in Ids :
        (workers[w].proc = "exited" /\ workers[w].exitBy \in {"srv", "wrk"})
        => /\ workers[w].server \notin {"listening", "closing"}
           /\ workers[w].httpServer \notin {"listening", "closing"}

\* C8: the shutdown lifecycle event is published before the close of any
\* listener begins: a listener is closing or closed only in a worker that
\* has published 'shutdown' on the lifecycle bus.
C8_ShutdownEventBeforeClose ==
    \A w \in Ids :
        (workers[w].server \in {"closing", "closed"}
         \/ workers[w].httpServer \in {"closing", "closed"})
        => workers[w].lcShutdown >= 1

\* C8 witness: a running worker whose primary listener is closing.
C8_Witness ==
    \E w \in Ids : /\ workers[w].proc = "running" /\ workers[w].server = "closing"
                   /\ workers[w].lcShutdown = 1

\* C9: the startup lifecycle event is published only once the primary
\* listener is bound: in the step that publishes it the listener is listening.
C9_StartupAfterBind ==
    [][\A w \in Ids :
          (~workers[w].startup /\ workers'[w].startup)
          => workers'[w].server = "listening"]_vars

\* C10: after a failed startup the delayed shutdown ends with status 1: a
\* worker whose shutdown was started by the startup-failure timer, and ended
\* by that shutdown or its forced-exit timers, has exit code 1.
C10_StartupFailureExitsOne ==
    \A w \in Ids :
        (/\ workers[w].proc = "exited" /\ workers[w].cause = "startfail"
         /\ workers[w].exitBy \in {"wrk", "wrkErr", "srvForce", "wrkForce"})
        => workers[w].exitCode = 1

CausedByPrimary(r) == r.exitBy = "disconnect"

\* C12 as stated: when the primary handles a worker exit it forks a
\* replacement if and only if its own shutdown sequence did not cause that exit.
C12_RespawnIffNotCausedByPrimary ==
    [][\A w \in Ids :
          HandlesExit(w) =>
             (Cardinality(NewWorkers) = 1 <=> ~CausedByPrimary(workers[w]))]_vars

\* C12 amended: when the primary handles a worker exit it forks exactly one
\* replacement if its shutdown flag is false and none if the flag is true,
\* whatever ended the worker.
C12_RespawnIffFlagFalse ==
    [][\A w \in Ids :
          HandlesExit(w) =>
             /\ Cardinality(NewWorkers) = (IF sup.srvExecuted THEN 0 ELSE 1)
             /\ ~sup.srvExecuted => \A i \in NewWorkers : workers'[i] = NewProcess]_vars

\* C12 witness: the primary's flag is true and it is about to handle the exit
\* of a worker that ended on its own, on a credential-file change.
C12_Witness ==
    \E w \in Ids : /\ workers[w].proc = "exited" /\ workers[w].cause = "file"
                   /\ workers[w].exitBy = "wrk"
                   /\ sup.proc = "running" /\ sup.srvExecuted

\* C13: in a worker, no listener is closing or closed while a subscriber of
\* the lifecycle 'shutdown' publication is still pending.
C13_SubscribersBeforeClose ==
    \A w \in Ids :
        (Running(w) /\ workers[w].lcPending) =>
            /\ workers[w].server \notin {"closing", "closed"}
            /\ workers[w].httpServer \notin {"closing", "closed"}

\* the secure port as a number, whatever its representation
PortNumber(v) == IF v.type = "number" THEN v.n ELSE ParseDigits(v.str, 1, 0)

\* C14: every request to the plaintext listener that is not a challenge
\* request is answered 301 with Location https://<host><url>, with no port
\* suffix when the secure port is 443, as a string or as a number, and with
\* :<port> for any other port.
C14_RedirectLocation ==
    \A w \in Ids :
        LET h == workers[w].http
        IN (h.phase = "done" /\ ~IsAcme(h.req.url)) =>
              /\ h.res.status = 301
              /\ h.res.location =
                    <<"https://", h.req.host>>
                    \o (IF PortNumber(conf.port) = 443 THEN <<>>
                        ELSE <<":">> \o Digits(PortNumber(conf.port)))
                    \o UrlText(h.req.url)

\* file path p lies in directory dir
Under(dir, p) == Len(p) > Len(dir) /\ SubSeq(p, 1, Len(dir)) = dir

\* C15: with a webroot configured, a request whose URL starts with the
\* challenge prefix is never redirected: it is answered 200 with the body and
\* the length of a file of the webroot, or 404 "Not Found" in plain text when
\* the webroot has no such file.
C15_AcmeFromWebroot ==
    \A w \in Ids :
        LET h == workers[w].http
        IN (h.phase = "done" /\ IsAcme(h.req.url) /\ conf.webroot.set) =>
              \/ /\ h.res.status = 200
                 /\ \E f \in conf.fs :
                       /\ Under(conf.webroot.str, f.path)
                       /\ h.res.body = f.data
                       /\ h.res.contentLength = Len(f.data)
              \/ /\ h.res.status = 404
                 /\ h.res.body = <<"Not Found">>
                 /\ h.res.contentType = "text/plain"

\* the forced-exit timers process q holds more than process p held
ArmedBy(p, q) == q.armed - p.armed

\* C16: in the step in which a shutdown flag of a process goes from false to
\* true, that function's forced-exit timer is armed if and only if its
\* configured timeout (TIMEOUT of the environment for server.mjs, timeout of
\* nconf for worker.mjs) is a positive number: with a zero or absent value
\* none is armed.
C16_TimerIffPositiveTimeout ==
    [][\A i \in 0..(THREADS + MaxQueue) :
          LET p == IF i = 0 THEN sup ELSE workers[i]
              q == IF i = 0 THEN sup' ELSE workers'[i]
              srvFlip == ~p.srvExecuted /\ q.srvExecuted
              wrkFlip == ~p.wrkExecuted /\ q.wrkExecuted
          IN (srvFlip \/ wrkFlip) =>
                ArmedBy(p, q) =
                    (IF srvFlip /\ Positive(ParseInt(conf.envTimeout)) THEN 1 ELSE 0)
                    + (IF wrkFlip /\ Positive(ParseInt(conf.timeout)) THEN 1 ELSE 0)]_vars

\* the workers that are alive
LiveWorkers == {w \in Ids : workers[w].proc = "running"}

\* C17: whenever the primary runs with its shutdown flag false and has no
\* worker exit left to handle, exactly THREADS workers are alive: THREADS
\* after the fork loop, and one fork for every exit handled since.
C17_LiveWorkersEqualThreads ==
    (/\ sup.proc = "running" /\ ~sup.srvExecuted
     /\ \A w \in Ids : workers[w].proc # "exited")
    => Cardinality(LiveWorkers) = THREADS

\* C17 witness: the primary, its flag false, has replaced a worker: a message
\* of worker 1 is still in flight, and the live worker is another one.
C17_Witness ==
    /\ sup.proc = "running" /\ ~sup.srvExecuted
    /\ \A w \in Ids : workers[w].proc # "exited"
    /\ toSup # <<>> /\ Head(toSup).from = 1
    /\ 1 \notin LiveWorkers /\ Cardinality(LiveWorkers) = THREADS

\* C18: the step in which the primary's shutdown flag becomes true changes
\* nothing but the primary's flag, its timers and the handler of the signal:
\* the primary publishes no shutdown event and stays running, no message is
\* sent or relayed, and no worker is ended or forked.
C18_PrimaryShutdownTouchesNoWorker ==
    [][(sup.proc = "running" /\ ~sup.srvExecuted /\ sup'.srvExecuted
        /\ sup'.proc = "running")
       => /\ workers' = workers
          /\ toSup' = toSup
          /\ sup'.evShutdown = sup.evShutdown /\ sup'.lcShutdown = sup.lcShutdown
          /\ sup'.srvPc = "idle"]_vars

\* C18 witness: the primary has run its shutdown on a signal and its worker
\* is still serving.
C18_Witness ==
    /\ sup.proc = "running" /\ sup.srvExecuted /\ sup.once # Signals
    /\ sup.evShutdown = 0
    /\ \E w \in Ids : /\ workers[w].proc = "running" /\ workers[w].pc = "up"
                      /\ ~workers[w].wrkExecuted /\ ~workers[w].srvExecuted

\* C19: once a shutdown flag of a running worker is true its startup does not
\* progress: no step calls listen() on a listener and none publishes the
\* startup event.
C19_NoStartupAfterShutdown ==
    [][\A w \in Ids :
          (Running(w) /\ (workers[w].wrkExecuted \/ workers[w].srvExecuted))
          => /\ workers'[w].startup = workers[w].startup
             /\ \A l \in Listeners :
                   workers'[w][l] = "binding" => workers[w][l] = "binding"]_vars

\* C20: an 'error' event of a listener of a worker, after listen() was
\* called, changes nothing but that listener: the shutdown flags, the
\* shutdown sequence, the timers and the running state of the worker are as
\* before, and the primary sees nothing.
C20_ListenerErrorOnlyLogged ==
    [][\A w \in Ids : \A l \in Listeners :
          (Running(w) /\ workers[w][l] = "binding" /\ workers'[w][l] = "unbound")
          => /\ workers' = [workers EXCEPT ![w][l] = "unbound"]
             /\ Running(w)'
             /\ ~workers[w].wrkExecuted => ~workers'[w].wrkExecuted
             /\ ~workers[w].srvExecuted => ~workers'[w].srvExecuted
             /\ sup' = sup /\ toSup' = toSup]_vars

\* C20 witness: a worker that has published 'startup' runs on, no shutdown
\* started, after the bind of its primary listener failed.
C20_Witness ==
    \E w \in Ids : /\ workers[w].proc = "running" /\ workers[w].pc = "up"
                   /\ workers[w].startup /\ workers[w].server = "unbound"
                   /\ ~workers[w].wrkExecuted /\ ~workers[w].srvExecuted
                   /\ workers[w].timers = {}

====
